---- MODULE Spec2Model ----
(***************************************************************************)
(* A model of the html-rust parser: the cursor scanner (Input), the        *)
(* tokenizer and flattening pass (create_node_vec), the tree builder       *)
(* (create_node_tree) and the reference-counted node tree (dom).           *)
(*                                                                         *)
(* A document is a sequence of one-character strings.  Cursor positions    *)
(* are 0-based as in the source: the character at cursor c is d[c + 1].    *)
(***************************************************************************)
EXTENDS Integers, Sequences, FiniteSets, TLC

\* ------------------------------------------------------------------------
\* Bounds of the model
\* ------------------------------------------------------------------------

\* Largest number of pieces a generated document is concatenated from.
MaxPieces == 4

\* Largest number of pieces of each of two documents that are compared.
MaxEqPieces == 3

\* Largest number of fragments of a document of tag fragments.
MaxTagPieces == 4

\* Largest number of nodes, of handles held by the caller and of entries of
\* all child sequences together in the ownership specification.
MaxNodes == 3

MaxHandles == 3

MaxChildren == 2

\* ------------------------------------------------------------------------
\* Helpers
\* ------------------------------------------------------------------------

\* Option<usize>::None
NoPos == -1

\* Ok(..): no error message
NoErr == << >>

SetMin(S) == CHOOSE i \in S : \A j \in S : i <= j

\* ------------------------------------------------------------------------
\* Cursor scanner (parser/input.rs)
\* ------------------------------------------------------------------------

is_end(d, c) == c >= Len(d)

\* peek-equals: the character at the cursor equals ch (false at end of input)
expect(d, c, ch) == c < Len(d) /\ d[c + 1] = ch

\* both advance forms move the cursor by one unit and leave it at a valid
\* position or at end of input
next(d, c) == IF c < Len(d) THEN c + 1 ELSE c

next_char(d, c) == IF c < Len(d) THEN c + 1 ELSE c

\* first occurrence of ch at or after the cursor
find(d, c, ch) ==
    LET S == {i \in c..(Len(d) - 1) : d[i + 1] = ch}
    IN  IF S = {} THEN NoPos ELSE SetMin(S)

\* the substring occurs literally at the cursor
expect_str(d, c, s) ==
    c + Len(s) <= Len(d) /\ SubSeq(d, c + 1, c + Len(s)) = s

\* first occurrence of the substring at or after the cursor
find_str(d, c, s) ==
    LET S == {i \in c..(Len(d) - 1) : expect_str(d, i, s)}
    IN  IF S = {} THEN NoPos ELSE SetMin(S)

ErrOutOfBounds == <<"OutOfBounds">>

\* slice(begin, end): fails if begin > end or end exceeds the input length
get_string(d, bgn, end) ==
    IF bgn > end \/ end > Len(d)
    THEN [err |-> ErrOutOfBounds, val |-> << >>]
    ELSE [err |-> NoErr, val |-> SubSeq(d, bgn + 1, end)]

\* ------------------------------------------------------------------------
\* Payload (dom/payload.rs)
\* ------------------------------------------------------------------------

NoAttributes == [some |-> FALSE, map |-> << >>]

\* Tag::new
TagNew(name) ==
    [kind |-> "Tag", name |-> name, attributes |-> NoAttributes,
     self_closing |-> FALSE, terminator |-> FALSE]

set_attributes(tag, m) == [tag EXCEPT !.attributes = [some |-> TRUE, map |-> m]]

set_terminator(tag, b) == [tag EXCEPT !.terminator = b]

set_self_closing(tag, b) == [tag EXCEPT !.self_closing = b]

Text(s) == [kind |-> "Text", text |-> s]

Comment(s) == [kind |-> "Comment", text |-> s]

is_tag(p) == p.kind = "Tag"

\* HashMap::insert
MapInsert(m, k, v) == [x \in (DOMAIN m) \cup {k} |-> IF x = k THEN v ELSE m[x]]

\* HashMap::remove
MapRemove(m, k) == [x \in (DOMAIN m) \ {k} |-> m[x]]

\* ------------------------------------------------------------------------
\* Tokenizer (parser/mod.rs)
\* ------------------------------------------------------------------------

ErrTag == <<"Input ends in the middle of the tag.">>

ErrComment == <<"Input ends in the middle of the comment.">>

ErrNoDelimiter(delimiter) ==
    <<"There is no delimiter to terminate the attribute.", delimiter>>

ErrEndsInDelimiter(delimiter) ==
    <<"Input ends in the middle of delimiter", delimiter>>

Whitespace == {" ", "\n"}

RECURSIVE TrimStart(_)
TrimStart(s) ==
    IF s # << >> /\ Head(s) \in Whitespace THEN TrimStart(Tail(s)) ELSE s

RECURSIVE TrimEnd(_)
TrimEnd(s) ==
    IF s # << >> /\ s[Len(s)] \in Whitespace
    THEN TrimEnd(SubSeq(s, 1, Len(s) - 1)) ELSE s

\* str::trim
Trim(s) == TrimEnd(TrimStart(s))

\* The loop of get_tag_end: 0 when the input ends before an unquoted '>'.
RECURSIVE GetTagEndLoop(_, _, _)
GetTagEndLoop(d, c, in_double_quote) ==
    IF is_end(d, c) THEN 0
    ELSE LET c1 == next_char(d, c)
             q1 == IF expect(d, c1, "\"") THEN ~in_double_quote
                   ELSE in_double_quote
         IN  IF ~q1 /\ expect(d, c1, ">") THEN c1
             ELSE GetTagEndLoop(d, c1, q1)

\* get_tag_end: the cursor is restored, so only the result is returned
get_tag_end(d, c) ==
    LET Result(res) == IF res = 0 THEN [err |-> ErrTag, val |-> 0]
                       ELSE [err |-> NoErr, val |-> res]
    IN  Result(GetTagEndLoop(d, c, FALSE))

parse_tag_attr_value(d, c, tag_end, delimiter) ==
    LET Value(value_bgn, pos) ==
            IF pos = NoPos
            THEN [err |-> ErrEndsInDelimiter(delimiter), cur |-> value_bgn,
                  val |-> << >>]
            ELSE IF pos >= tag_end /\ delimiter # " "
            THEN [err |-> ErrNoDelimiter(delimiter), cur |-> value_bgn,
                  val |-> << >>]
            ELSE LET value_end == IF pos < tag_end THEN pos ELSE tag_end
                     Slice(s) == [err |-> s.err, cur |-> value_end, val |-> s.val]
                 IN  IF value_bgn = value_end
                     THEN [err |-> NoErr, cur |-> value_bgn, val |-> << >>]
                     ELSE Slice(get_string(d, value_bgn, value_end))
        From(c1) == Value(c1, find(d, c1, delimiter))
    IN  From(IF delimiter # " " THEN next(d, c) ELSE c)

\* The attribute loop of parse_tag_attr, from cursor c with the map m.
RECURSIVE AttrLoop(_, _, _, _)
AttrLoop(d, c, tag_end, m) ==
    IF expect(d, c, ">")
    THEN [err |-> NoErr, cur |-> next(d, c), map |-> m]
    ELSE
    LET attr_name_bgn == c
        NameEnd(eq, sp) ==
            LET e1 == IF eq # NoPos /\ eq < tag_end THEN eq ELSE tag_end
            IN  IF sp # NoPos /\ sp < e1 THEN sp ELSE e1
        Delimiter(c2) == IF expect(d, c2, "\"") THEN "\""
                         ELSE IF expect(d, c2, "'") THEN "'" ELSE " "
        ValueAt(c2) == parse_tag_attr_value(d, c2, tag_end, Delimiter(c2))
        Value(c1, eq2) ==
            IF c1 # tag_end /\ eq2 # NoPos /\ eq2 < tag_end
            THEN ValueAt(next_char(d, eq2))
            ELSE [err |-> NoErr, cur |-> c1, val |-> << >>]
        Insert(c1, nm, v) ==
            IF nm.err # NoErr THEN [err |-> nm.err, cur |-> c1, map |-> m]
            ELSE IF v.err # NoErr THEN [err |-> v.err, cur |-> v.cur, map |-> m]
            ELSE IF expect(d, v.cur, ">")
            THEN [err |-> NoErr, cur |-> next(d, v.cur),
                  map |-> MapInsert(m, nm.val, v.val)]
            ELSE AttrLoop(d, next_char(d, v.cur), tag_end,
                          MapInsert(m, nm.val, v.val))
        Attr(attr_name_end) ==
            Insert(attr_name_end, get_string(d, attr_name_bgn, attr_name_end),
                   Value(attr_name_end, find(d, attr_name_end, "=")))
    IN  Attr(NameEnd(find(d, c, "="), find(d, c, " ")))

parse_tag_attr(d, c, tag) ==
    LET slash == <<"/">>
        Finish(r) ==
            IF r.err # NoErr THEN [err |-> r.err, cur |-> r.cur, val |-> tag]
            ELSE [err |-> NoErr, cur |-> r.cur,
                  val |-> set_attributes(
                              IF slash \in DOMAIN r.map
                              THEN set_self_closing(tag, TRUE) ELSE tag,
                              MapRemove(r.map, slash))]
        Attrs(te) ==
            IF te.err # NoErr THEN [err |-> te.err, cur |-> c, val |-> tag]
            ELSE Finish(AttrLoop(d, c, te.val, << >>))
    IN  Attrs(get_tag_end(d, c))

parse_tag_name(d, c, terminator) ==
    LET name_bgn == c
        After(name_end, tag) ==
            IF expect(d, name_end, ">")
            THEN [err |-> NoErr, cur |-> next(d, name_end), val |-> tag]
            ELSE IF expect(d, next_char(d, name_end), ">")
            THEN [err |-> NoErr, cur |-> next(d, next_char(d, name_end)),
                  val |-> tag]
            ELSE parse_tag_attr(d, next_char(d, name_end), tag)
        Named(name_end, nm) ==
            IF nm.err # NoErr
            THEN [err |-> nm.err, cur |-> name_end, val |-> TagNew(<< >>)]
            ELSE After(name_end, set_terminator(TagNew(Trim(nm.val)), terminator))
        Name(name_end) == Named(name_end, get_string(d, name_bgn, name_end))
        NameEnd(tag_end, sp) ==
            Name(IF sp # NoPos /\ sp < tag_end THEN sp ELSE tag_end)
        End(te) ==
            IF te.err # NoErr
            THEN [err |-> te.err, cur |-> c, val |-> TagNew(<< >>)]
            ELSE NameEnd(te.val, find(d, c, " "))
    IN  End(get_tag_end(d, c))

parse_tag(d, c) ==
    LET Name(c1) ==
            IF expect(d, c1, "/") THEN parse_tag_name(d, next(d, c1), TRUE)
            ELSE parse_tag_name(d, c1, FALSE)
    IN  Name(next(d, c))

CommentOpen == <<"<", "!", "-", "-">>

CommentClose == <<"-", "-", ">">>

parse_comment(d, c) ==
    LET bgn == c + Len(CommentOpen)
        Slice(pos, s) == [err |-> s.err, cur |-> pos + Len(CommentClose),
                          val |-> Comment(s.val)]
        End(pos) ==
            IF pos = NoPos
            THEN [err |-> ErrComment, cur |-> c, val |-> Comment(<< >>)]
            ELSE Slice(pos, get_string(d, bgn, pos))
    IN  End(find_str(d, c, CommentClose))

\* parse_text with the text trimmed of surrounding whitespace
parse_text_trimmed(d, c) ==
    LET bgn == c
        Slice(end, s) == [err |-> s.err, cur |-> end, val |-> Text(Trim(s.val))]
        To(end) == Slice(end, get_string(d, bgn, end))
        End(pos) == To(IF pos # NoPos THEN pos ELSE next_char(d, c))
    IN  End(find(d, c, "<"))

parse_text(d, c) ==
    LET bgn == c
        Slice(end, s) == [err |-> s.err, cur |-> end, val |-> Text(s.val)]
        To(end) == Slice(end, get_string(d, bgn, end))
        End(pos) == To(IF pos # NoPos THEN pos ELSE next_char(d, c))
    IN  End(find(d, c, "<"))

ScriptClose == <<"<", "/", "s", "c", "r", "i", "p", "t">>

\* the script body taken as ordinary text, up to the first '<'
parse_text_script_to_first_tag(d, c) ==
    LET Slice(end, s) == [err |-> s.err, cur |-> end, val |-> Text(s.val)]
        End(pos) ==
            IF pos = NoPos THEN [err |-> ErrTag, cur |-> c, val |-> Text(<< >>)]
            ELSE Slice(pos, get_string(d, c, pos))
    IN  End(find(d, c, "<"))

ScriptName == <<"s", "c", "r", "i", "p", "t">>

parse_text_script(d, c) ==
    LET bgn == c
        Slice(end, s) == [err |-> s.err, cur |-> end, val |-> Text(s.val)]
        End(pos) ==
            IF pos = NoPos THEN [err |-> ErrTag, cur |-> c, val |-> Text(<< >>)]
            ELSE Slice(pos, get_string(d, bgn, pos))
    IN  End(find_str(d, c, ScriptClose))

\* One iteration of the flattening loop of create_node_vec at cursor c:
\* the error (if any), the new cursor and the payloads pushed, in order.
CreateNodeVecIter(d, c) ==
    LET One(r) == [err |-> r.err, cur |-> r.cur,
                   out |-> IF r.err = NoErr THEN <<r.val>> ELSE << >>]
        Script(tag, t) == [err |-> t.err, cur |-> t.cur,
                           out |-> IF t.err = NoErr THEN <<tag, t.val>>
                                   ELSE <<tag>>]
        TagNode(r) ==
            IF r.err # NoErr THEN [err |-> r.err, cur |-> r.cur, out |-> << >>]
            ELSE IF /\ r.val.name = ScriptName /\ ~r.val.terminator
                    /\ ~expect(d, r.cur, "<")
            THEN Script(r.val, parse_text_script(d, r.cur))
            ELSE [err |-> NoErr, cur |-> r.cur, out |-> <<r.val>>]
        TextNode(c1) ==
            IF expect(d, c1, "<")
            THEN [err |-> NoErr, cur |-> c1, out |-> << >>]
            ELSE One(parse_text(d, c1))
    IN  IF expect_str(d, c, CommentOpen) THEN One(parse_comment(d, c))
        ELSE IF expect(d, c, "<") THEN TagNode(parse_tag(d, c))
        ELSE TextNode(IF expect(d, c, " ") \/ expect(d, c, "\n")
                      THEN next_char(d, c) ELSE c)

\* ------------------------------------------------------------------------
\* Node tree (dom/mod.rs).  The heap is the sequence of all NodeData ever
\* allocated; a node's id is its index.  strong is the Rc strong count;
\* parent is the target of the Weak back-reference (0 for Weak::new()).
\* ------------------------------------------------------------------------

\* Option::None for a node reference
NoNode == 0

\* Node::new: the new node's id is Len(h) + 1
NodeNew(h, payload) ==
    Append(h, [payload |-> payload, parent |-> NoNode, children |-> << >>,
               strong |-> 1])

\* Rc::clone of a handle to node id
RcClone(h, id) == [h EXCEPT ![id].strong = @ + 1]

\* Dropping one owning handle to node id; at strong count zero the NodeData is
\* destroyed and with it the handles in its child sequence.
RECURSIVE RcDrop(_, _)
RECURSIVE RcDropAll(_, _)
RcDrop(h, id) ==
    IF h[id].strong > 1 THEN [h EXCEPT ![id].strong = @ - 1]
    ELSE RcDropAll([h EXCEPT ![id].strong = 0, ![id].children = << >>],
                   h[id].children)

RcDropAll(h, ids) ==
    IF ids = << >> THEN h ELSE RcDropAll(RcDrop(h, Head(ids)), Tail(ids))

\* add_child_and_update_parent that leaves the child's parent unset
add_child_without_parent(h, self, child) ==
    [RcClone(h, child) EXCEPT ![self].children = Append(@, child)]

\* add_child_and_update_parent that keeps the clone of self it makes the Weak
\* from
add_child_keeping_parent(h, self, child) ==
    LET h1 == [RcClone(h, child) EXCEPT ![self].children = Append(@, child)]
        h2 == RcClone(h1, self)
    IN  [h2 EXCEPT ![child].parent = self]

\* Node::add_child_and_update_parent: the child sequence gets a clone of the
\* child's handle; the child's parent becomes a Weak made from a temporary
\* clone of self, which is dropped at once.
add_child_and_update_parent(h, self, child) ==
    LET h1 == [RcClone(h, child) EXCEPT ![self].children = Append(@, child)]
        h2 == RcClone(h1, self)
        h3 == [h2 EXCEPT ![child].parent = self]
    IN  RcDrop(h3, self)

\* NodeData::get_parent: Weak::upgrade succeeds while the strong count is > 0
get_parent(h, id) ==
    IF h[id].parent # NoNode /\ h[h[id].parent].strong > 0
    THEN h[id].parent ELSE NoNode

has_parent(h, id) == get_parent(h, id) # NoNode

\* equality by identity of the allocation (Rc::ptr_eq) instead of by content
NodeEqByIdentity(h, a, b) == a = b

\* impl PartialEq for NodeData: payload and children, recursively
RECURSIVE NodeEq(_, _, _)
NodeEq(h, a, b) ==
    /\ h[a].payload = h[b].payload
    /\ Len(h[a].children) = Len(h[b].children)
    /\ \A i \in 1..Len(h[a].children) :
           NodeEq(h, h[a].children[i], h[b].children[i])

\* ------------------------------------------------------------------------
\* Tree builder (parser/mod.rs)
\* ------------------------------------------------------------------------

\* find_terminator with the search started one node too late
find_terminator_from_second(h, nv, starter) ==
    LET S == {i \in 1..(Len(nv) - 1) :
                 /\ is_tag(h[nv[i + 1]].payload)
                 /\ h[nv[i + 1]].payload.terminator
                 /\ h[nv[i + 1]].payload.name = starter.name}
    IN  IF S = {} THEN NoPos ELSE SetMin(S)

\* find_terminator that reports an end tag behind the next node when there is
\* none
find_terminator_always_found(h, nv, starter) ==
    LET S == {i \in 0..(Len(nv) - 1) :
                 /\ is_tag(h[nv[i + 1]].payload)
                 /\ h[nv[i + 1]].payload.terminator
                 /\ h[nv[i + 1]].payload.name = starter.name}
    IN  IF S = {} THEN 1 ELSE SetMin(S)

\* find_terminator: index (0-based) of the first end tag named like starter
find_terminator(h, nv, starter) ==
    LET S == {i \in 0..(Len(nv) - 1) :
                 /\ is_tag(h[nv[i + 1]].payload)
                 /\ h[nv[i + 1]].payload.terminator
                 /\ h[nv[i + 1]].payload.name = starter.name}
    IN  IF S = {} THEN NoPos ELSE SetMin(S)

\* is_open_tag without the test of the self-closing flag
is_open_tag_any_start(p) == is_tag(p) /\ ~p.terminator

\* create_node_tree: the node is a tag whose end tag is looked for, that is a
\* tag that is neither an end tag nor self-closing
is_open_tag(p) == is_tag(p) /\ ~p.terminator /\ ~p.self_closing

\* get_children, recursively: the nodes of the tree under id, in pre-order
RECURSIVE Preorder(_, _)
RECURSIVE PreorderAll(_, _)
Preorder(h, id) == <<id>> \o PreorderAll(h, h[id].children)

PreorderAll(h, ids) ==
    IF ids = << >> THEN << >>
    ELSE Preorder(h, Head(ids)) \o PreorderAll(h, Tail(ids))

Range(f) == {f[i] : i \in DOMAIN f}

\* ------------------------------------------------------------------------
\* Search (extent.rs).  result is the caller's Vec, or Option with NoNode for
\* None; the references pushed are borrows, no handle is cloned.
\* ------------------------------------------------------------------------

\* get_nodes_by_name that pushes the source after the matches below it
RECURSIVE get_nodes_by_name_children_first(_, _, _, _)
RECURSIVE NodesChildrenFirst(_, _, _, _)
get_nodes_by_name_children_first(h, result, source, tag_name) ==
    LET Own(r) ==
            IF is_tag(h[source].payload) /\ h[source].payload.name = tag_name
            THEN Append(r, source) ELSE r
    IN  Own(NodesChildrenFirst(h, result, h[source].children, tag_name))

NodesChildrenFirst(h, result, children, tag_name) ==
    IF children = << >> THEN result
    ELSE NodesChildrenFirst(
             h, get_nodes_by_name_children_first(h, result, Head(children),
                                                 tag_name),
             Tail(children), tag_name)

RECURSIVE get_nodes_by_name(_, _, _, _)
RECURSIVE NodesByNameLoop(_, _, _, _)
get_nodes_by_name(h, result, source, tag_name) ==
    LET Children(r) == NodesByNameLoop(h, r, h[source].children, tag_name)
    IN  Children(IF /\ is_tag(h[source].payload)
                    /\ h[source].payload.name = tag_name
                 THEN Append(result, source) ELSE result)

\* for child in source.get_children() { get_nodes_by_name(...) }
NodesByNameLoop(h, result, children, tag_name) ==
    IF children = << >> THEN result
    ELSE NodesByNameLoop(
             h, get_nodes_by_name(h, result, Head(children), tag_name),
             Tail(children), tag_name)

RECURSIVE get_node_by_name(_, _, _, _)
RECURSIVE NodeByNameLoop(_, _, _, _)
get_node_by_name(h, result, source, tag_name) ==
    IF is_tag(h[source].payload) /\ h[source].payload.name = tag_name
    THEN source
    ELSE NodeByNameLoop(h, result, h[source].children, tag_name)

\* for child in source.get_children() { ...; if result.is_some() { break } }
NodeByNameLoop(h, result, children, tag_name) ==
    LET After(r) == IF r # NoNode THEN r
                    ELSE NodeByNameLoop(h, r, Tail(children), tag_name)
    IN  IF children = << >> THEN result
        ELSE After(get_node_by_name(h, result, Head(children), tag_name))

\* ------------------------------------------------------------------------
\* State
\* ------------------------------------------------------------------------

VARIABLES
    pending,    \* documents the caller has still to pass to parse
    doc,        \* Input: the document being parsed
    cursor,     \* Input: the cursor
    pc,         \* where the caller / parse stands
    heap,       \* every NodeData allocated so far
    node_vec,   \* the flat node sequence (ids), consumed by the tree builder
    flat,       \* the flat sequence as create_node_vec returned it
    stack,      \* parents of the active create_node_tree calls, outermost first
    results,    \* what the parse calls returned, in order
    handles,    \* owning handles (Node / Rc<NodeData>) held by the caller
    eq,         \* result of the caller's last == comparison
    found       \* result of the caller's last search by tag name

vars == <<pending, doc, cursor, pc, heap, node_vec, flat, stack, results,
          handles, eq,
                   found>>

\* One call of parse as the caller saw it: the document passed and the
\* Result<Node, String> returned.
\* the handles the caller holds with one to node id more; which handle is
\* which does not matter, they are kept in the order of the node ids
Hold(hs, id) ==
    LET k == Cardinality({i \in 1..Len(hs) : hs[i] <= id})
    IN  SubSeq(hs, 1, k) \o <<id>> \o SubSeq(hs, k + 1, Len(hs))

Ok(d, root) == [doc |-> d, err |-> NoErr, root |-> root]

Err(d, e) == [doc |-> d, err |-> e, root |-> NoNode]

RootName == <<"r", "o", "o", "t">>

\* ------------------------------------------------------------------------
\* parse (parser/mod.rs), one action per loop iteration
\* ------------------------------------------------------------------------

\* The caller calls parse(doc): Input::new and entry into create_node_vec.
ParseCall ==
    /\ pc = "idle"
    /\ pending # << >>
    /\ doc' = Head(pending)
    /\ pending' = Tail(pending)
    /\ cursor' = 0
    /\ node_vec' = << >>
    /\ flat' = << >>
    /\ stack' = << >>
    /\ pc' = "skip"
    /\ UNCHANGED <<heap, results, handles, eq,
                   found>>

\* create_node_vec: one test of the loop that moves to the first '<'.
SkipToFirstTag ==
    /\ pc = "skip"
    /\ IF expect(doc, cursor, "<")
       THEN pc' = "vec" /\ cursor' = cursor
       ELSE pc' = pc /\ cursor' = next_char(doc, cursor)
    /\ UNCHANGED <<pending, doc, heap, node_vec, flat, stack, results,
                   handles, eq,
                   found>>

RECURSIVE NewNodes(_, _)
NewNodes(h, payloads) ==
    IF payloads = << >> THEN h
    ELSE NewNodes(NodeNew(h, Head(payloads)), Tail(payloads))

\* create_node_vec: one iteration of the flattening loop.  An error drops the
\* vector and is what parse returns.
CreateNodeVecStep ==
    /\ pc = "vec"
    /\ ~is_end(doc, cursor)
    /\ LET Ids(out) == [i \in 1..Len(out) |-> Len(heap) + i]
           Apply(r) ==
               /\ cursor' = r.cur
               /\ IF r.err = NoErr
                  THEN /\ heap' = NewNodes(heap, r.out)
                       /\ node_vec' = node_vec \o Ids(r.out)
                       /\ pc' = pc
                       /\ results' = results
                  ELSE /\ heap' = RcDropAll(NewNodes(heap, r.out),
                                            node_vec \o Ids(r.out))
                       /\ node_vec' = << >>
                       /\ pc' = "idle"
                       /\ results' = Append(results, Err(doc, r.err))
       IN  Apply(CreateNodeVecIter(doc, cursor))
    /\ UNCHANGED <<pending, doc, flat, stack, handles, eq,
                   found>>

\* create_node_vec returns Ok(node_vec); parse makes the root and calls
\* create_node_tree(&mut node_vec, &mut root).
CreateNodeVecReturn ==
    /\ pc = "vec"
    /\ is_end(doc, cursor)
    /\ flat' = node_vec
    /\ heap' = NodeNew(heap, TagNew(RootName))
    /\ stack' = <<Len(heap) + 1>>
    /\ pc' = "tree"
    /\ UNCHANGED <<pending, doc, cursor, node_vec, results, handles, eq,
                   found>>

\* A create_node_tree call returns.  In a nested call the caller attaches the
\* node it recursed into to its own parent and drops its handle; the outermost
\* call returns to parse, which drops what is left of node_vec and returns the
\* root to the caller.
TreeReturn(h, nv, st) ==
    IF Len(st) > 1
    THEN LET node == st[Len(st)]
             parent == st[Len(st) - 1]
         IN  /\ heap' = RcDrop(add_child_and_update_parent(h, parent, node), node)
             /\ node_vec' = nv
             /\ stack' = SubSeq(st, 1, Len(st) - 1)
             /\ pc' = "tree"
             /\ UNCHANGED <<results, handles>>
    ELSE /\ heap' = RcDropAll(h, nv)
         /\ node_vec' = << >>
         /\ stack' = << >>
         /\ pc' = "idle"
         /\ results' = Append(results, Ok(doc, st[1]))
         /\ handles' = Hold(handles, st[1])

\* create_node_tree: one iteration of the loop, up to the recursive call, the
\* return or the attachment that ends it.
CreateNodeTreeStep ==
    /\ pc = "tree"
    /\ node_vec # << >>
    /\ LET node == Head(node_vec)
           nv == Tail(node_vec)
           p == heap[node].payload
           parent == stack[Len(stack)]
           idx == find_terminator(heap, nv, p)
       IN  IF is_tag(p) /\ p.terminator
           THEN TreeReturn(RcDrop(heap, node), nv, stack)
           ELSE IF is_open_tag(p) /\ idx > 0
           THEN /\ stack' = Append(stack, node)
                /\ node_vec' = nv
                /\ UNCHANGED <<heap, pc, results, handles>>
           ELSE LET drop0 == is_open_tag(p) /\ idx = 0
                    h1 == IF drop0 THEN RcDrop(heap, Head(nv)) ELSE heap
                    nv1 == IF drop0 THEN Tail(nv) ELSE nv
                IN  /\ heap' = RcDrop(add_child_and_update_parent(h1, parent, node),
                                      node)
                    /\ node_vec' = nv1
                    /\ UNCHANGED <<stack, pc, results, handles>>
    /\ UNCHANGED <<pending, doc, cursor, flat, eq,
                   found>>

\* create_node_tree: the loop ends because node_vec is empty.
CreateNodeTreeReturn ==
    /\ pc = "tree"
    /\ node_vec = << >>
    /\ TreeReturn(heap, node_vec, stack)
    /\ UNCHANGED <<pending, doc, cursor, flat, eq,
                   found>>

\* ------------------------------------------------------------------------
\* Generated documents
\* ------------------------------------------------------------------------

RECURSIVE Flatten(_)
Flatten(ps) == IF ps = << >> THEN << >> ELSE Head(ps) \o Flatten(Tail(ps))

\* every concatenation of at most n pieces drawn from P
DocsOver(P, n) == {Flatten(s) : s \in UNION {[1..k -> P] : k \in 0..n}}

\* The state in which the caller is about to parse the documents ds in order.
InitWith(ds) ==
    /\ pending \in ds
    /\ doc = << >>
    /\ cursor = 0
    /\ pc = "idle"
    /\ heap = << >>
    /\ node_vec = << >>
    /\ flat = << >>
    /\ stack = << >>
    /\ results = << >>
    /\ handles = << >>
    /\ eq = << >>
    /\ found = << >>

Next ==
    \/ ParseCall
    \/ SkipToFirstTag
    \/ CreateNodeVecStep
    \/ CreateNodeVecReturn
    \/ CreateNodeTreeStep
    \/ CreateNodeTreeReturn

\* Pieces for tree structure: start and end tags, a self-closing tag, text,
\* a comment and an element with a text child
TreePieces ==
    { <<"<", "a", ">">>, <<"<", "/", "a", ">">>, <<"<", "/", "b", ">">>,
      <<"<", "a", " ", "/", ">">>, <<"x">>,
      <<"<", "!", "-", "-", "c", "-", "-", ">">>,
      <<"<", "b", ">", "x", "<", "/", "b", ">">> }

Init == InitWith({<<d>> : d \in DocsOver(TreePieces, MaxPieces)})

\* parse of one document built from the tree pieces
Spec == Init /\ [][Next]_vars

\* The caller compares the nodes of the first returned tree with the nodes of
\* the second with == (tests eq_test, ne_test compare the roots).
Compare ==
    /\ pc = "idle"
    /\ pending = << >>
    /\ eq = << >>
    /\ Len(results) = 2
    /\ results[1].err = NoErr
    /\ results[2].err = NoErr
    /\ eq' = [p \in Range(Preorder(heap, results[1].root))
                      \X Range(Preorder(heap, results[2].root)) |->
                 NodeEq(heap, p[1], p[2])]
    /\ UNCHANGED <<pending, doc, cursor, pc, heap, node_vec, flat, stack,
                   results, handles, found>>

NextEq == Next \/ Compare

\* Pieces for comparison: a tag pair and text with and without a leading space
EqPieces ==
    { <<"<", "a", ">">>, <<"<", "/", "a", ">">>, <<"x">>, <<"y">>,
      <<" ", "x">> }

\* two documents of the same pieces but for at most one piece
InitEq ==
    InitWith(UNION {{<<Flatten(s), Flatten([s EXCEPT ![i] = q])>> :
                        i \in 1..Len(s), q \in EqPieces} :
                    s \in UNION {[1..k -> EqPieces] : k \in 1..MaxEqPieces}})

\* parse of two documents and the comparison of the two trees
SpecEq == InitEq /\ [][NextEq]_vars

\* The caller searches the tree of the last parse by a tag name, once with
\* get_nodes_by_name and once with get_node_by_name, each started empty.
QueryNames == { <<"a">>, <<"b">>, RootName, <<"x">> }

Query ==
    /\ pc = "idle"
    /\ pending = << >>
    /\ results # << >>
    /\ results[Len(results)].err = NoErr
    /\ found = << >>
    /\ \E name \in QueryNames :
           found' = [name |-> name,
                     nodes |-> get_nodes_by_name(
                                   heap, << >>, results[Len(results)].root,
                                   name),
                     node |-> get_node_by_name(
                                  heap, NoNode, results[Len(results)].root,
                                  name)]
    /\ UNCHANGED <<pending, doc, cursor, pc, heap, node_vec, flat, stack,
                   results, handles, eq>>

NextQuery == Next \/ Query

\* parse of a document and a search in its tree
SpecQuery == Init /\ [][NextQuery]_vars

\* A start tag a with an empty value of attribute x, in the three forms
AttrHeads ==
    { <<"<", "a", " ", "x", "=", "\"", "\"", ">">>,
      <<"<", "a", " ", "x", "=", "'", "'", ">">>,
      <<"<", "a", " ", "x", "=", ">">> }

\* what may follow the tag
AttrRest == { <<"<", "/", "a", ">">>, <<" ">>, <<"y">>, <<"<", "b", ">">> }

InitAttr ==
    InitWith({<<h \o r>> : h \in AttrHeads,
                           r \in DocsOver(AttrRest, MaxPieces - 1)})

\* parse of a document that starts with a tag with an empty attribute value
SpecAttr == InitAttr /\ [][Next]_vars

\* Pieces for script bodies: script tags, the literal that closes a body with
\* and without its '>', text and a tag that may stand inside a body
ScriptPieces ==
    { <<"<", "s", "c", "r", "i", "p", "t", ">">>,
      <<"<", "s", "c", "r", "i", "p", "t", " ", "/", ">">>,
      <<"<", "/", "s", "c", "r", "i", "p", "t", ">">>,
      <<"<", "/", "s", "c", "r", "i", "p", "t">>,
      <<"x">>, <<"<", "b", ">">> }

InitScript == InitWith({<<d>> : d \in DocsOver(ScriptPieces, MaxPieces)})

\* parse of a document with script tags
SpecScript == InitScript /\ [][Next]_vars

\* Fragments of tags: the tag delimiters, the double quote, a name, a space
\* and the start of an attribute value
TagFragments ==
    { <<"<">>, <<">">>, <<"\"">>, <<"a">>, <<" ">>, <<"x", "=">> }

InitTag == InitWith({<<d>> : d \in DocsOver(TagFragments, MaxTagPieces)})

\* parse of a document of tag fragments
SpecTag == InitTag /\ [][Next]_vars

\* Pieces for comments: the opener, the closer, their characters, text, a tag
CommentPieces ==
    { <<"<", "!", "-", "-">>, <<"-", "-", ">">>, <<"-">>, <<">">>, <<"x">>,
      <<"<", "a", ">">> }

InitComment == InitWith({<<d>> : d \in DocsOver(CommentPieces, MaxPieces)})

\* parse of a document with comments
SpecComment == InitComment /\ [][Next]_vars

\* Pieces for whitespace between tags: tags, a space and a newline
SpacePieces ==
    { <<"<", "a", ">">>, <<"<", "/", "a", ">">>, <<"<", "a", " ", "/", ">">>,
      <<" ">>, <<"\n">> }

InitSpace == InitWith({<<d>> : d \in DocsOver(SpacePieces, MaxPieces)})

\* parse of a document of tags and whitespace
SpecSpace == InitSpace /\ [][Next]_vars

\* Pieces for termination: a tag pair, text and whitespace
LivePieces == { <<"<", "a", ">">>, <<"<", "/", "a", ">">>, <<"x">>, <<" ">> }

InitLive == InitWith({<<d>> : d \in DocsOver(LivePieces, MaxPieces)})

\* parse runs on its own: a step that can be taken is taken
SpecLive == InitLive /\ [][Next]_vars /\ WF_vars(Next)

\* The caller of the dom module holds handles (Node values) and creates nodes,
\* clones and drops handles and attaches one held node to another, in any
\* order (tests parent_test, copy_test).
LiName == <<"l", "i">>

NewNode ==
    /\ Len(heap) < MaxNodes
    /\ Len(handles) < MaxHandles
    /\ heap' = NodeNew(heap, TagNew(LiName))
    /\ handles' = Hold(handles, Len(heap) + 1)
    /\ UNCHANGED <<pending, doc, cursor, pc, node_vec, flat, stack, results,
                   eq,
                   found>>

CloneHandle ==
    /\ Len(handles) < MaxHandles
    /\ \E i \in 1..Len(handles) :
           /\ heap' = RcClone(heap, handles[i])
           /\ handles' = Hold(handles, handles[i])
    /\ UNCHANGED <<pending, doc, cursor, pc, node_vec, flat, stack, results,
                   eq,
                   found>>

DropHandle ==
    /\ \E i \in 1..Len(handles) :
           /\ heap' = RcDrop(heap, handles[i])
           /\ handles' = SubSeq(handles, 1, i - 1)
                             \o SubSeq(handles, i + 1, Len(handles))
    /\ UNCHANGED <<pending, doc, cursor, pc, node_vec, flat, stack, results,
                   eq,
                   found>>

Attach ==
    /\ \E i, j \in 1..Len(handles) :
           /\ Len(Flatten([n \in 1..Len(heap) |-> heap[n].children]))
                  < MaxChildren
           /\ heap' = add_child_and_update_parent(heap, handles[i], handles[j])
    /\ UNCHANGED <<pending, doc, cursor, pc, node_vec, flat, stack, results,
                   handles, eq,
                   found>>

InitOwn == InitWith({<< >>})

NextOwn == NewNode \/ CloneHandle \/ DropHandle \/ Attach

\* any sequence of node creation, attach, clone-handle and drop-handle
SpecOwn == InitOwn /\ [][NextOwn]_vars

\* Pieces for text content: a tag pair, two letters and a space
TextPieces ==
    { <<"<", "a", ">">>, <<"<", "/", "a", ">">>, <<"x">>, <<"y">>, <<" ">> }

InitText == InitWith({<<d>> : d \in DocsOver(TextPieces, MaxPieces)})

\* parse of one document built from the text pieces
SpecText == InitText /\ [][Next]_vars

\* ------------------------------------------------------------------------
\* Vocabulary of the properties
\* ------------------------------------------------------------------------

\* the last parse call has returned
Returned == pc = "idle" /\ results # << >>

Last == results[Len(results)]

ReturnedOk == Returned /\ Last.err = NoErr

FlatPayloads == [i \in 1..Len(flat) |-> heap[flat[i]].payload]

IsEndTag(p) == is_tag(p) /\ p.terminator

IsStartTag(p) == is_tag(p) /\ ~p.terminator /\ ~p.self_closing

\* the tree under id as a value: payloads and child sequences only
RECURSIVE TreeValue(_, _)
TreeValue(h, id) ==
    [payload |-> h[id].payload,
     children |-> [i \in 1..Len(h[id].children) |->
                      TreeValue(h, h[id].children[i])]]

\* how often id stands in the child sequences of the heap
Occurrences(h, id) ==
    Cardinality({<<m, k>> \in (1..Len(h)) \X (1..Len(h)) :
                    k <= Len(h[m].children) /\ h[m].children[k] = id})

\* start and end tags of ps from index i on are paired and nested, with the
\* names in open still to be closed
RECURSIVE Balanced(_, _, _)
Balanced(ps, i, open) ==
    IF i > Len(ps) THEN open = << >>
    ELSE IF IsEndTag(ps[i])
    THEN /\ open # << >>
         /\ open[Len(open)] = ps[i].name
         /\ Balanced(ps, i + 1, SubSeq(open, 1, Len(open) - 1))
    ELSE IF IsStartTag(ps[i]) THEN Balanced(ps, i + 1, Append(open, ps[i].name))
    ELSE Balanced(ps, i + 1, open)

ProperlyNested(ps) == Balanced(ps, 1, << >>)

\* the trees of one nesting level of a properly nested sequence, from index i
\* to the end tag that closes the level
RECURSIVE NestLevel(_, _)
NestLevel(ps, i) ==
    IF i > Len(ps) \/ IsEndTag(ps[i]) THEN [kids |-> << >>, next |-> i]
    ELSE LET Cons(kid, rest) == [kids |-> <<kid>> \o rest.kids, next |-> rest.next]
             Inner(inner) ==
                 Cons([payload |-> ps[i], children |-> inner.kids],
                      NestLevel(ps, inner.next + 1))
         IN  IF IsStartTag(ps[i]) THEN Inner(NestLevel(ps, i + 1))
             ELSE Cons([payload |-> ps[i], children |-> << >>],
                       NestLevel(ps, i + 1))

\* ------------------------------------------------------------------------
\* Properties
\* ------------------------------------------------------------------------

\* C1: for a properly paired and nested flat sequence the tree under the
\* synthetic root is the nesting of the sequence: the children of a start tag
\* are the nodes between it and its own end tag, one level deeper, in order.
C1_NestedTree ==
    (ReturnedOk /\ ProperlyNested(FlatPayloads)) =>
        /\ heap[Last.root].payload = TagNew(RootName)
        /\ TreeValue(heap, Last.root).children = NestLevel(FlatPayloads, 1).kids

\* a, b, Text, /b, b, Text, /b, /a has become root -> a -> [b -> Text, b -> Text]
C1_Witness ==
    /\ ReturnedOk
    /\ ProperlyNested(FlatPayloads)
    /\ Len(flat) = 8
    /\ Len(heap[Last.root].children) = 1
    /\ LET a == heap[Last.root].children[1]
       IN  /\ Len(heap[a].children) = 2
           /\ \A k \in 1..2 :
                  /\ Len(heap[heap[a].children[k]].children) = 1
                  /\ heap[heap[heap[a].children[k]].children[1]].payload.kind
                         = "Text"

\* C4: in a returned tree a self-closing tag has no children.
C4_SelfClosingNoChildren ==
    ReturnedOk =>
        \A id \in Range(Preorder(heap, Last.root)) :
            (is_tag(heap[id].payload) /\ heap[id].payload.self_closing)
                => heap[id].children = << >>

\* a self-closing tag in the tree was followed by text and by an end tag of
\* its own name
C4_Witness ==
    /\ ReturnedOk
    /\ \E i \in 1..Len(flat) :
           /\ flat[i] \in Range(Preorder(heap, Last.root))
           /\ is_tag(heap[flat[i]].payload)
           /\ heap[flat[i]].payload.self_closing
           /\ i + 2 <= Len(flat)
           /\ heap[flat[i + 1]].payload.kind = "Text"
           /\ IsEndTag(heap[flat[i + 2]].payload)
           /\ heap[flat[i + 2]].payload.name = heap[flat[i]].payload.name

\* C10: in a returned tree the root is the Tag "root", has no parent and is
\* nobody's child; every other node of the tree stands in exactly one child
\* sequence, once, and its parent reference resolves to the owner of it.
C10_TreeShape ==
    ReturnedOk =>
        LET root == Last.root
        IN  /\ heap[root].payload = TagNew(RootName)
            /\ ~has_parent(heap, root)
            /\ Occurrences(heap, root) = 0
            /\ \A id \in Range(Preorder(heap, root)) \ {root} :
                   /\ Occurrences(heap, id) = 1
                   /\ has_parent(heap, id)
                   /\ id \in Range(heap[get_parent(heap, id)].children)

\* a returned tree with a node two levels below the root
C10_Witness ==
    /\ ReturnedOk
    /\ \E id \in Range(Preorder(heap, Last.root)) :
           /\ has_parent(heap, id)
           /\ has_parent(heap, get_parent(heap, id))
           /\ get_parent(heap, get_parent(heap, id)) = Last.root

\* the document with every tag, from '<' to the next '>', removed
RECURSIVE StripTags(_)
StripTags(d) ==
    IF d = << >> THEN << >>
    ELSE IF Head(d) = "<"
    THEN LET close == find(d, 0, ">")
         IN  IF close = NoPos THEN << >>
             ELSE StripTags(SubSeq(d, close + 2, Len(d)))
    ELSE <<Head(d)>> \o StripTags(Tail(d))

\* the tags <name> and </name> of the document from cursor i on are paired
\* and nested, with the names in open still to be closed
RECURSIVE DocBalanced(_, _, _)
DocBalanced(d, i, open) ==
    IF i >= Len(d) THEN open = << >>
    ELSE IF d[i + 1] # "<" THEN DocBalanced(d, i + 1, open)
    ELSE LET close == find(d, i, ">")
             name == SubSeq(d, i + 2, close)
         IN  IF close = NoPos \/ name = << >> THEN FALSE
             ELSE IF Head(name) = "/"
             THEN /\ open # << >>
                  /\ open[Len(open)] = Tail(name)
                  /\ DocBalanced(d, close + 1, SubSeq(open, 1, Len(open) - 1))
             ELSE DocBalanced(d, close + 1, Append(open, name))

WellFormedDoc(d) == DocBalanced(d, 0, << >>)

\* the Text payloads of the nodes ids, concatenated in order
RECURSIVE TextOf(_, _)
TextOf(h, ids) ==
    IF ids = << >> THEN << >>
    ELSE (IF h[Head(ids)].payload.kind = "Text" THEN h[Head(ids)].payload.text
          ELSE << >>) \o TextOf(h, Tail(ids))

PreorderText(h, root) == TextOf(h, Preorder(h, root))

\* the document starts with a tag, no text run starts with a space or a
\* newline, and the text after the last tag holds neither
NoSkippedText(d) ==
    /\ d # << >>
    /\ d[1] = "<"
    /\ \A i \in 1..Len(d) :
           d[i] \in Whitespace =>
               /\ d[i - 1] # ">"
               /\ \E j \in (i + 1)..Len(d) : d[j] = "<"

RECURSIVE CommonPrefix(_, _)
CommonPrefix(d, e) ==
    IF d = << >> \/ e = << >> \/ Head(d) # Head(e) THEN 0
    ELSE 1 + CommonPrefix(Tail(d), Tail(e))

RECURSIVE Reverse(_)
Reverse(d) == IF d = << >> THEN << >> ELSE Reverse(Tail(d)) \o <<Head(d)>>

TagChars == {"<", ">"}

\* d and e differ only inside one text run that stands between two tags
DiffersInOneText(d, e) ==
    LET p == CommonPrefix(d, e)
        q == CommonPrefix(Reverse(SubSeq(d, p + 1, Len(d))),
                          Reverse(SubSeq(e, p + 1, Len(e))))
        last == {i \in 1..p : d[i] \in TagChars}
        first == {i \in (Len(d) - q + 1)..Len(d) : d[i] \in TagChars}
    IN  /\ d # e
        /\ \A i \in (p + 1)..(Len(d) - q) : d[i] \notin TagChars
        /\ \A i \in (p + 1)..(Len(e) - q) : e[i] \notin TagChars
        /\ last # {} /\ d[CHOOSE i \in last : \A j \in last : j <= i] = ">"
        /\ first # {} /\ d[SetMin(first)] = "<"

\* the text run of d in which d and e differ starts with a space or newline
RunStartsWithSpace(d, e) ==
    LET p == CommonPrefix(d, e)
        last == {i \in 1..p : d[i] = ">"}
    IN  d[(CHOOSE i \in last : \A j \in last : j <= i) + 1] \in Whitespace

Compared == eq # << >>

Roots == <<results[1].root, results[2].root>>

\* == is structural: it holds exactly when the payloads are equal and the
\* child sequences are pairwise equal, whatever the parents;
\* the same document parsed twice gives equal trees
C3_Structural ==
    Compared =>
        /\ \A p \in DOMAIN eq :
               eq[p] = (TreeValue(heap, p[1]) = TreeValue(heap, p[2]))
        /\ results[1].doc = results[2].doc => eq[Roots]

\* C3 as stated: equality is structural, the same document parsed twice gives
\* equal trees, and two documents that differ only in one leaf text value
\* give unequal trees.
C3_Equality ==
    /\ C3_Structural
    /\ (Compared /\ DiffersInOneText(results[1].doc, results[2].doc))
           => ~eq[Roots]

\* C3 amended: the last part holds for properly paired documents when neither
\* of the two text runs starts with a space or newline.
C3_EqualityAmended ==
    /\ C3_Structural
    /\ ( /\ Compared
         /\ DiffersInOneText(results[1].doc, results[2].doc)
         /\ WellFormedDoc(results[1].doc)
         /\ ~RunStartsWithSpace(results[1].doc, results[2].doc)
         /\ ~RunStartsWithSpace(results[2].doc, results[1].doc) )
           => ~eq[Roots]

\* two well-formed documents that differ in one leaf text were parsed, the
\* roots compare unequal, and the two leaves, of different parents, too
C3_Witness ==
    /\ Compared
    /\ DiffersInOneText(results[1].doc, results[2].doc)
    /\ WellFormedDoc(results[1].doc)
    /\ ~RunStartsWithSpace(results[1].doc, results[2].doc)
    /\ ~RunStartsWithSpace(results[2].doc, results[1].doc)
    /\ ~eq[Roots]
    /\ \E p \in DOMAIN eq :
           /\ heap[p[1]].payload.kind = "Text"
           /\ heap[p[2]].payload.kind = "Text"
           /\ get_parent(heap, p[1]) # get_parent(heap, p[2])
           /\ ~eq[p]

\* the map of attribute x with the empty string for its value
EmptyX == MapInsert(<< >>, <<"x">>, << >>)

\* C5: for a document that starts with <a x="">, <a x=''> or <a x=>, with or
\* without further content, parse succeeds and the tag a carries attribute x
\* mapped to the empty string.
C5_EmptyValue ==
    Returned =>
        /\ Last.err = NoErr
        /\ flat # << >>
        /\ is_tag(heap[flat[1]].payload)
        /\ heap[flat[1]].payload.name = <<"a">>
        /\ heap[flat[1]].payload.attributes = [some |-> TRUE, map |-> EmptyX]

ScriptOpen == <<"<", "s", "c", "r", "i", "p", "t">>

\* the characters of s stand in d from cursor c on
StartsAt(d, c, s) ==
    c + Len(s) <= Len(d) /\ \A i \in 1..Len(s) : d[c + i] = s[i]

\* the cursor after the first '>' at or after cursor c, Len(d) + 1 if none
AfterTagEnd(d, c) ==
    SetMin({p \in (c + 1)..Len(d) : d[p] = ">"} \cup {Len(d) + 1})

\* the places at or after cursor b where the literal </script starts
ScriptCloses(d, b) ==
    {e \in b..Len(d) : StartsAt(d, e, ScriptClose)}

\* at cursor c stands a non-end script tag, followed by a body that does not
\* start with '<' and that is later closed by the literal </script
ScriptBodyAt(d, c) ==
    /\ StartsAt(d, c, ScriptOpen)
    /\ c + Len(ScriptOpen) < Len(d)
    /\ d[c + Len(ScriptOpen) + 1] \in {" ", ">"}
    /\ AfterTagEnd(d, c) < Len(d)
    /\ d[AfterTagEnd(d, c) + 1] # "<"
    /\ ScriptCloses(d, AfterTagEnd(d, c)) # {}

IsScriptStart(p) == is_tag(p) /\ p.name = ScriptName /\ ~p.terminator

\* the tokenizer emits the script tag and the body, verbatim up to </script
ScriptBodyStep ==
    (pc = "vec" /\ ScriptBodyAt(doc, cursor)) =>
        LET b == AfterTagEnd(doc, cursor)
            e == SetMin(ScriptCloses(doc, b))
            n == Len(node_vec)
        IN  /\ pc' = "vec"
            /\ cursor' = e
            /\ Len(node_vec') = n + 2
            /\ SubSeq(node_vec', 1, n) = node_vec
            /\ IsScriptStart(heap'[node_vec'[n + 1]].payload)
            /\ heap'[node_vec'[n + 2]].payload = Text(SubSeq(doc, b + 1, e))

InTree(id) == id \in Range(Preorder(heap, Last.root))

\* in the tree every non-end script tag that a Text follows has that Text for
\* its only child
ScriptTree ==
    ReturnedOk =>
        \A i \in 1..(Len(flat) - 1) :
            ( /\ IsScriptStart(FlatPayloads[i])
              /\ FlatPayloads[i + 1].kind = "Text" )
                => heap[flat[i]].children = <<flat[i + 1]>>

\* the same for script tags of the tree that are not self-closing and whose
\* body is closed by an end tag named script
ScriptTreeAmended ==
    ReturnedOk =>
        \A i \in 1..(Len(flat) - 2) :
            ( /\ IsScriptStart(FlatPayloads[i])
              /\ FlatPayloads[i + 1].kind = "Text"
              /\ ~FlatPayloads[i].self_closing
              /\ IsEndTag(FlatPayloads[i + 2])
              /\ FlatPayloads[i + 2].name = ScriptName
              /\ InTree(flat[i]) )
                => heap[flat[i]].children = <<flat[i + 1]>>

\* C6 as stated: after a non-end script tag whose body does not start with
\* '<' and is closed by the literal </script, the tokenizer emits the body as
\* one Text, verbatim up to </script, and in the tree the script node has
\* exactly that Text child.
C6_ScriptBody == [][ScriptBodyStep]_vars /\ []ScriptTree

\* C6 amended: the tree part holds when the script tag is not self-closing,
\* the literal </script starts an end tag named script, and the script node
\* is part of the tree.
C6_ScriptBodyAmended == [][ScriptBodyStep]_vars /\ []ScriptTreeAmended

\* a script node of the tree whose only child is a Text with a '<' in it
C6_Witness ==
    /\ ReturnedOk
    /\ \E i \in 1..(Len(flat) - 2) :
           /\ IsScriptStart(FlatPayloads[i])
           /\ ~FlatPayloads[i].self_closing
           /\ FlatPayloads[i + 1].kind = "Text"
           /\ "<" \in Range(FlatPayloads[i + 1].text)
           /\ IsEndTag(FlatPayloads[i + 2])
           /\ InTree(flat[i])
           /\ heap[flat[i]].children = <<flat[i + 1]>>
           /\ get_parent(heap, flat[i + 1]) = flat[i]

\* the number of double quotes of d at the cursors from..to
Quotes(d, from, to) ==
    Cardinality({p \in from..to : p < Len(d) /\ d[p + 1] = "\""})

\* cursor p lies inside a double-quoted span of the tag opened at cursor c
InQuotedSpan(d, c, p) ==
    /\ Quotes(d, c + 1, p - 1) % 2 = 1
    /\ Quotes(d, p + 1, Len(d) - 1) > 0

\* the tag opened by '<' at cursor c reaches the end of input without a '>'
\* that lies outside a double-quoted span
Unterminated(d, c) ==
    /\ expect(d, c, "<")
    /\ \A p \in (c + 1)..(Len(d) - 1) : d[p + 1] = ">" => InQuotedSpan(d, c, p)

\* C7: if a tag opened by '<' reaches end of input without a '>' outside a
\* double-quoted span, parse returns an error and no tree: the tokenizer step
\* at that tag ends the call with an error, no root, and tree construction
\* is not started.
C7_UnterminatedTag ==
    [][ (pc = "vec" /\ Unterminated(doc, cursor)) =>
            /\ pc' = "idle"
            /\ Len(results') = Len(results) + 1
            /\ results'[Len(results')].err # NoErr
            /\ results'[Len(results')].root = NoNode
            /\ stack' = << >> ]_vars

\* the places at or after cursor b where --> starts
CommentCloses(d, b) == {e \in b..Len(d) : StartsAt(d, e, CommentClose)}

\* the step at a comment opener that the claim describes
CommentStep ==
    LET b == cursor + Len(CommentOpen)
        closes == CommentCloses(doc, b)
        n == Len(node_vec)
    IN  IF closes = {}
        THEN /\ pc' = "idle"
             /\ results' = Append(results, Err(doc, ErrComment))
        ELSE /\ pc' = "vec"
             /\ cursor' = SetMin(closes) + Len(CommentClose)
             /\ Len(node_vec') = n + 1
             /\ SubSeq(node_vec', 1, n) = node_vec
             /\ heap'[node_vec'[n + 1]].payload =
                    Comment(SubSeq(doc, b + 1, SetMin(closes)))

\* C8: at a comment opener the tokenizer emits a Comment whose text is the
\* span between the end of <!-- and the first --> that follows the opener; it
\* fails, with the unterminated-comment error, only when there is no such -->;
\* no input makes parse fail with an out-of-bounds slice error.
C8_Comment ==
    [][ /\ (pc = "vec" /\ StartsAt(doc, cursor, CommentOpen)) => CommentStep
        /\ results' # << >> =>
               results'[Len(results')].err # ErrOutOfBounds ]_vars

\* the number of places of the sequence f that hold v
Count(f, v) == Cardinality({i \in DOMAIN f : f[i] = v})

RECURSIVE SumOver(_, _)
SumOver(f, n) == IF n = 0 THEN 0 ELSE f[n] + SumOver(f, n - 1)

\* the number of owning handles to node p: those the caller holds and those
\* in the child sequences of the nodes
Owners(p) ==
    Count(handles, p)
        + SumOver([n \in 1..Len(heap) |-> Count(heap[n].children, p)],
                  Len(heap))

\* a parent reference that was set resolves to its node exactly while that
\* node has an owning handle
ParentResolves ==
    \A c \in 1..Len(heap) :
        heap[c].parent # NoNode =>
            /\ Owners(heap[c].parent) > 0 =>
                   /\ has_parent(heap, c)
                   /\ get_parent(heap, c) = heap[c].parent
            /\ Owners(heap[c].parent) = 0 =>
                   /\ ~has_parent(heap, c)
                   /\ get_parent(heap, c) = NoNode

\* a step in which node p gets c for a new last child sets the parent
\* reference of c to p, and it resolves
AttachStep ==
    \A p, c \in 1..Len(heap) :
        ( /\ Len(heap') = Len(heap)
          /\ heap'[p].children = Append(heap[p].children, c) )
            => /\ heap'[c].parent = p
               /\ has_parent(heap', c)
               /\ get_parent(heap', c) = p

\* C9: after parent.add_child_and_update_parent(child) the child's parent
\* reference resolves to that parent while some owning handle to the parent is
\* alive, and get_parent returns no parent once every owning handle to the
\* parent has been dropped, after any sequence of attach, clone-handle and
\* drop-handle operations.
C9_ParentReference == []ParentResolves /\ [][AttachStep]_vars

\* a child the caller still holds, attached earlier, whose parent has no
\* owning handle left: get_parent returns no parent
C9_Witness ==
    \E c \in Range(handles) :
        /\ heap[c].parent # NoNode
        /\ heap[c].parent # c
        /\ Owners(heap[c].parent) = 0
        /\ get_parent(heap, c) = NoNode
        /\ Len(handles) >= 2

\* the elements of the sequence f that are Tag nodes named name, in order
NamedIn(h, f, name) ==
    SelectSeq(f, LAMBDA id : is_tag(h[id].payload) /\ h[id].payload.name = name)

Searched == found # << >>

\* C11: get_nodes_by_name started empty gives exactly the Tag nodes with the
\* name in pre-order (node before its children, children left to right), and
\* get_node_by_name started empty gives the first of them, or nothing when
\* there is none; the search changes nothing of the tree.
C11_SearchByName ==
    /\ [](Searched =>
            /\ found.nodes = NamedIn(heap, Preorder(heap, Last.root),
                                     found.name)
            /\ found.node = IF found.nodes = << >> THEN NoNode
                            ELSE found.nodes[1])
    /\ [][found' # found => heap' = heap]_vars

\* a search in a tree of at least four nodes that found two tags of the name,
\* the second a child of the first
C11_Witness ==
    /\ Searched
    /\ Len(found.nodes) >= 2
    /\ found.node = found.nodes[1]
    /\ get_parent(heap, found.nodes[2]) = found.nodes[1]
    /\ Len(Preorder(heap, Last.root)) >= 4

\* p is a start tag, not self-closing, and no node of the sequence nv is an
\* end tag of its name
Unmatched(h, p, nv) ==
    /\ IsStartTag(p)
    /\ \A i \in 1..Len(nv) :
           ~(IsEndTag(h[nv[i]].payload) /\ h[nv[i]].payload.name = p.name)

\* the step of create_node_tree at an unmatched start tag attaches it to the
\* current parent with no children and goes on in the same loop, so that what
\* follows is attached to the same parent
UnmatchedStep ==
    ( /\ pc = "tree"
      /\ node_vec # << >>
      /\ Unmatched(heap, heap[Head(node_vec)].payload, Tail(node_vec)) )
        => /\ pc' = "tree"
           /\ stack' = stack
           /\ node_vec' = Tail(node_vec)
           /\ heap'[stack[Len(stack)]].children =
                  Append(heap[stack[Len(stack)]].children, Head(node_vec))
           /\ heap'[Head(node_vec)].children = << >>
           /\ get_parent(heap', Head(node_vec)) = stack[Len(stack)]

\* a and b are children of the same node, b next after a
NextSibling(h, a, b) ==
    /\ get_parent(h, a) # NoNode
    /\ get_parent(h, a) = get_parent(h, b)
    /\ \E k \in 1..(Len(h[get_parent(h, a)].children) - 1) :
           /\ h[get_parent(h, a)].children[k] = a
           /\ h[get_parent(h, a)].children[k + 1] = b

\* in the tree an unmatched start tag has no children and the node that
\* follows it in the flat sequence, unless an end tag, is its next sibling
UnmatchedLeaf ==
    ReturnedOk =>
        \A i \in 1..Len(flat) :
            ( /\ Unmatched(heap, FlatPayloads[i],
                           SubSeq(flat, i + 1, Len(flat)))
              /\ InTree(flat[i]) )
                => /\ heap[flat[i]].children = << >>
                   /\ (i < Len(flat) /\ ~IsEndTag(FlatPayloads[i + 1]))
                          => NextSibling(heap, flat[i], flat[i + 1])

\* once create_node_tree is entered the call ends with Ok(root)
NoTreeError ==
    pc = "tree" =>
        \/ pc' = "tree"
        \/ pc' = "idle" /\ results' = Append(results, Ok(doc, stack[1]))

\* C12: a start tag, not self-closing, with no end tag of its name in the
\* remaining flat sequence is attached to the current parent with zero
\* children, what follows it becomes its sibling and not its descendant, and
\* tree construction never turns a tokenizer success into an error.
C12_UnmatchedStart ==
    /\ [][UnmatchedStep]_vars
    /\ []UnmatchedLeaf
    /\ [][NoTreeError]_vars

\* a parse returned a tree in which an unmatched start tag is a leaf and the
\* Text after it is its next sibling, with an end tag of another name behind
C12_Witness ==
    /\ ReturnedOk
    /\ \E i \in 1..(Len(flat) - 2) :
           /\ Unmatched(heap, FlatPayloads[i], SubSeq(flat, i + 1, Len(flat)))
           /\ InTree(flat[i])
           /\ heap[flat[i]].children = << >>
           /\ FlatPayloads[i + 1].kind = "Text"
           /\ NextSibling(heap, flat[i], flat[i + 1])
           /\ IsEndTag(FlatPayloads[i + 2])

\* the place of node id in the flat sequence
FlatIndex(id) == CHOOSE i \in 1..Len(flat) : flat[i] = id

\* the place in the flat sequence of the first end tag behind place i that is
\* named like the tag at place i
MatchingEnd(i) ==
    SetMin({j \in (i + 1)..Len(flat) :
                /\ IsEndTag(FlatPayloads[j])
                /\ FlatPayloads[j].name = FlatPayloads[i].name})

\* a step in which the recursive call of create_node_tree into the tag on top
\* of the stack returns
RecursionReturns ==
    /\ pc = "tree"
    /\ Len(stack) > 1
    /\ Len(stack') = Len(stack) - 1

\* C13: the recursive call into a start tag whose first same-named end tag
\* stands at an index greater than 0 consumes the nodes up to and including
\* that end tag: on return the sequence is what stood behind that end tag,
\* and every node before it that is not an end tag is a descendant of the
\* start tag, also when end tags of other names stand in between.
C13_RecursionConsumes ==
    [][ RecursionReturns =>
            LET node == stack[Len(stack)]
                i == FlatIndex(node)
                j == MatchingEnd(i)
            IN  /\ node_vec' = SubSeq(flat, j + 1, Len(flat))
                /\ \A k \in (i + 1)..(j - 1) :
                       ~IsEndTag(FlatPayloads[k]) =>
                           flat[k] \in Range(Preorder(heap', node)) ]_vars

\* the nodes of the flat sequence that are not end tags, in order
FlatContent == SelectSeq(flat, LAMBDA id : ~IsEndTag(heap[id].payload))

\* C14: tree construction consumes the whole flat sequence and loses nothing:
\* when the outermost create_node_tree call returns the sequence is empty (an
\* end tag without opener drops only itself), and the pre-order traversal of
\* the root's descendants lists every node of the flat sequence that is not an
\* end tag, once, in the order of the flat sequence.
C14_WholeSequence ==
    /\ [][ (pc = "tree" /\ pc' = "idle") => Len(node_vec) <= 1 ]_vars
    /\ [](ReturnedOk => Tail(Preorder(heap, Last.root)) = FlatContent)

\* parse has returned, with a tree or an error
Terminates == <>Returned

\* an iteration of the skip loop stops the loop or advances the cursor, and so
\* does an iteration of the flattening loop unless it fails
CursorAdvances ==
    /\ pc = "skip" =>
           \/ expect(doc, cursor, "<")
           \/ next_char(doc, cursor) > cursor
    /\ (pc = "vec" /\ ~is_end(doc, cursor)) =>
           \/ CreateNodeVecIter(doc, cursor).err # NoErr
           \/ CreateNodeVecIter(doc, cursor).cur > cursor

\* an iteration of create_node_tree shortens the flat sequence
SequenceShortens ==
    (pc = "tree" /\ node_vec # << >>) => Len(node_vec') < Len(node_vec)

\* C15: parse terminates on every input document, with a tree or an error:
\* the skip to the first '<' and every iteration of the flattening loop of
\* create_node_vec advance the cursor or stop, also for documents with no '<'
\* at all, empty documents and documents that end in text or whitespace, and
\* every iteration of create_node_tree shortens the flat sequence.
C15_Progress == []CursorAdvances /\ [][SequenceShortens]_vars

\* the document is made of tags and of whitespace runs that each stand
\* between two tags
TagsAndSpaceBetween(d) ==
    /\ d # << >>
    /\ d[1] = "<"
    /\ d[Len(d)] = ">"
    /\ \A i \in 1..Len(d) :
           d[i] \in Whitespace =>
               \/ \E j \in 1..(i - 1) :
                      /\ d[j] = ">"
                      /\ \A k \in (j + 1)..i : d[k] \in Whitespace
               \/ \E j \in 1..(i - 1) :
                      /\ d[j] = "<"
                      /\ \A k \in (j + 1)..i : d[k] # ">"

WhitespaceOnly(p) ==
    p.kind = "Text" /\ \A k \in 1..Len(p.text) : p.text[k] \in Whitespace

\* C16: a run of one or more spaces or newlines that stands immediately
\* before the next '<' is skipped: for documents in which tags are separated
\* only by whitespace runs of any length, neither the flat sequence nor the
\* tree holds a whitespace-only Text node.
C16_NoWhitespaceText ==
    (ReturnedOk /\ TagsAndSpaceBetween(Last.doc)) =>
        /\ \A i \in 1..Len(flat) : ~WhitespaceOnly(FlatPayloads[i])
        /\ \A id \in Range(Preorder(heap, Last.root)) :
               ~WhitespaceOnly(heap[id].payload)

====
